---- MODULE Spec2Model ----
(***************************************************************************)
(* Model of jthorniley/clock: the pendulum models (clock/models.py), the   *)
(* drawing objects (clock/drawing.py) and the animation player and driver  *)
(* (clock/__init__.py).                                                    *)
(*                                                                         *)
(* Real numbers are exact rationals <<num, den>> in lowest terms with      *)
(* den > 0; binary64 rounding is not modelled.  scipy's solve_ivp and      *)
(* numpy's linspace/exp are library code: linspace is modelled by its      *)
(* definition, exp by a three-decimal fixed-point table, and solve_ivp by  *)
(* its result contract (status, samples delivered at the requested grid)   *)
(* with the sample values chosen by the environment.                       *)
(***************************************************************************)
EXTENDS Integers, Sequences, FiniteSets, TLC

VARIABLES
    args,       \* models.py API: arguments of the call being made
    ret,        \* models.py API: what the call returned
    configs,    \* __init__.py: the configs tuple of the entry point
    anims,      \* __init__.py: the animations list (PendulumAnimation objects)
    phase,      \* __init__.py: "idle", "setup", "running" or "failed"
    err,        \* __init__.py: the exception that left the entry point
    pos,        \* __init__.py: position of update(t)'s for loop (0: not in it)
    ticks,      \* number of calls of update(t) made by FuncAnimation
    pulls,      \* per player: number of states pulled by update()
    restarts,   \* per player: number of times update() restarted the iterator
    state       \* per player: the local variable state of the last update()

vars == <<args, ret, configs, anims, phase, err, pos, ticks, pulls, restarts, state>>

animVars == <<configs, anims, phase, err, pos, ticks, pulls, restarts, state>>

----------------------------------------------------------------------------
(* Rational arithmetic                                                     *)

Abs(x) == IF x < 0 THEN -x ELSE x

Min(a, b) == IF a < b THEN a ELSE b

RECURSIVE GCD(_, _)
GCD(a, b) == IF b = 0 THEN a ELSE GCD(b, a % b)

Rat(n, d) ==
    LET g == GCD(Abs(n), Abs(d))
    IN  IF d < 0 THEN <<(-n) \div g, (-d) \div g>> ELSE <<n \div g, d \div g>>

Zero == <<0, 1>>

One == <<1, 1>>

RAdd(a, b) == Rat(a[1] * b[2] + b[1] * a[2], a[2] * b[2])

RNeg(a) == <<-a[1], a[2]>>

RSub(a, b) == Rat(a[1] * b[2] - b[1] * a[2], a[2] * b[2])

RMul(a, b) == Rat(a[1] * b[1], a[2] * b[2])

RDivInt(a, n) == Rat(a[1], a[2] * n)

RLe(a, b) == a[1] * b[2] <= b[1] * a[2]

RLt(a, b) == a[1] * b[2] < b[1] * a[2]

RFloor(a) == a[1] \div a[2]

RIsInt(a) == a[2] = 1

----------------------------------------------------------------------------
(* clock/models.py                                                         *)

\* np.exp(x) for x <= 0, to three decimals: x is taken to the nearest fifth
\* -m/5, m = floor(-5x + 1/2), and ExpTable[m + 1] is exp(-m/5) in
\* thousandths, rounded; beyond the table the value rounds to 0.
ExpTable ==
    <<1000, 819, 670, 549, 449, 368, 301, 247, 202, 165,
      135, 111, 91, 74, 61, 50, 41, 33, 27, 22,
      18, 15, 12, 10, 8, 7, 6, 5, 4, 3,
      2, 2, 2, 1, 1, 1, 1, 1, 1>>

np_exp(x) ==
    LET m == (x[2] - 10 * x[1]) \div (2 * x[2])
    IN  IF m >= Len(ExpTable) THEN Zero ELSE Rat(ExpTable[m + 1], 1000)

\* Pendulum.__call__: derivative of the plain model with drag k.
Pendulum_call(k, t, y) ==
    LET p == y[1]
        dotp == y[2]
        ddotp == RSub(RNeg(p), RMul(k, dotp))
    IN  <<dotp, ddotp>>

\* PendulumWithEscapement.escapement.peak
peak(p, dotp, offset) ==
    LET a == RSub(RNeg(p), offset)
        b == RSub(dotp, offset)
        d == RAdd(RMul(a, a), RMul(b, b))
    IN  np_exp(RMul(<<-20, 1>>, d))

\* PendulumWithEscapement.escapement
escapement(p, dotp) == RSub(peak(p, dotp, <<2, 5>>), peak(p, dotp, <<-2, 5>>))

\* Mutant: the escapement model recomputes the acceleration without the drag.
PendulumWithEscapement_call_nodrag(k, q, t, y) ==
    <<y[2], RAdd(RNeg(y[1]), RMul(q, escapement(y[1], y[2])))>>

\* PendulumWithEscapement.__call__
PendulumWithEscapement_call(k, q, t, y) ==
    LET ddotp_pendulum == Pendulum_call(k, t, y)[2]
        ddotp_escapement == RMul(q, escapement(y[1], y[2]))
        ddotp == RAdd(ddotp_pendulum, ddotp_escapement)
    IN  <<y[2], ddotp>>

\* Mutant: the grid leaves its end point out (endpoint=False).
np_linspace_open(start, stop, num) ==
    IF num < 0 THEN [exc |-> "ValueError", val |-> <<>>]
    ELSE IF num = 0 THEN [exc |-> "none", val |-> <<>>]
    ELSE LET step == RDivInt(RSub(stop, start), num)
         IN  [exc |-> "none",
              val |-> [i \in 1..num |-> RAdd(start, RMul(<<i - 1, 1>>, step))]]

\* np.linspace(start, stop, num): num evenly spaced points, the last one stop.
np_linspace(start, stop, num) ==
    IF num < 0 THEN [exc |-> "ValueError", val |-> <<>>]
    ELSE IF num = 0 THEN [exc |-> "none", val |-> <<>>]
    ELSE IF num = 1 THEN [exc |-> "none", val |-> <<start>>]
    ELSE LET step == RDivInt(RSub(stop, start), num - 1)
         IN  [exc |-> "none",
              val |-> [i \in 1..num |-> RAdd(start, RMul(<<i - 1, 1>>, step))]]

\* The evaluation grid of Pendulum.solve (the local variable t_eval).
t_eval_of(t, freq) == np_linspace(Zero, t, RFloor(RAdd(RMul(t, freq), One)))

\* Sample j of a solution starting at init, as the solver's integration gives
\* it: the first sample is init, the later ones are the environment's.
SolverValue(init, shape, j) ==
    IF shape = "still" THEN init
    ELSE <<RAdd(init[1], Rat(j - 1, 10)), RSub(init[2], Rat(j - 1, 10))>>

\* scipy.integrate.solve_ivp(fun, [0, tf], init, t_eval=t_eval), by its result
\* contract.  o is what the integration does: it reaches tf (status 0) or a
\* step fails (o.failed, status -1), and then o.m bounds the grid points
\* already passed, which are what the result holds.  With tf = 0 the solver
\* finishes at once and delivers no grid point.
solve_ivp(init, tf, t_eval, o) ==
    LET n == Len(t_eval)
        status == IF tf = Zero \/ ~o.failed THEN 0 ELSE -1
        m == IF tf = Zero \/ n = 0 THEN 0
             ELSE IF status = 0 THEN n
             ELSE IF n = 1 THEN Min(o.m, 1)
             ELSE Min(o.m, n - 1)
    IN  [exc |-> "none", status |-> status,
         t |-> SubSeq(t_eval, 1, m),
         y |-> [j \in 1..m |-> SolverValue(init, o.shape, j)],
         t_eval |-> t_eval]

\* Pendulum.solve(init, t, freq)
solve(init, t, freq, o) ==
    LET t_eval == t_eval_of(t, freq)
    IN  IF t_eval.exc # "none"
        THEN [exc |-> t_eval.exc, status |-> 0, t |-> <<>>, y |-> <<>>,
              t_eval |-> <<>>]
        ELSE solve_ivp(init, t, t_eval.val, o)

----------------------------------------------------------------------------
(* Inputs                                                                  *)

MaxPartial == 2

Shapes == {"drift", "still"}

Outcomes == [failed : BOOLEAN, m : 0..MaxPartial, shape : Shapes]

Drags == {Zero, <<1, 10>>, <<1, 2>>}

Gains == {Zero, <<1, 4>>, One}

Times == {Zero, One}

Coords == {<<-2, 5>>, Zero, <<2, 5>>, One}

Inits == {<<Zero, One>>, <<<<2, 5>>, Zero>>}

Durations == {<<-1, 1>>, <<-1, 20>>, Zero, <<1, 20>>, <<1, 10>>, <<1, 5>>,
              One, <<10, 1>>}

Freqs == {<<-1, 1>>, Zero, <<5, 2>>, <<15, 1>>, <<50, 1>>}

CallArgs == [api : {"call"}, k : Drags, q : Gains, tm : Times,
             y : Coords \X Coords]

SolveArgs == [api : {"solve"}, k : Drags, init : Inits, t : Durations,
              freq : Freqs]

NoRet == [op |-> "none"]

----------------------------------------------------------------------------
(* The models.py API exercised directly                                    *)

AnimIdle ==
    /\ configs = <<>>
    /\ anims = <<>>
    /\ phase = "idle"
    /\ err = "none"
    /\ pos = 0
    /\ ticks = 0
    /\ pulls = <<>>
    /\ restarts = <<>>
    /\ state = <<>>

InitModels ==
    /\ args \in CallArgs \cup SolveArgs
    /\ ret = NoRet
    /\ AnimIdle

CallPendulum ==
    /\ args.api = "call"
    /\ ret.op = "none"
    /\ ret' = [op |-> "Pendulum", out |-> Pendulum_call(args.k, args.tm, args.y)]
    /\ UNCHANGED <<args, animVars>>

CallEscapement ==
    /\ args.api = "call"
    /\ ret.op = "none"
    /\ ret' = [op |-> "PendulumWithEscapement",
               out |-> PendulumWithEscapement_call(args.k, args.q, args.tm, args.y)]
    /\ UNCHANGED <<args, animVars>>

CallSolve ==
    /\ args.api = "solve"
    /\ ret.op = "none"
    /\ \E o \in Outcomes :
          ret' = [op |-> "solve", out |-> solve(args.init, args.t, args.freq, o)]
    /\ UNCHANGED <<args, animVars>>

NextModels == CallPendulum \/ CallEscapement \/ CallSolve

SpecModels == InitModels /\ [][NextModels]_vars

----------------------------------------------------------------------------
(* clock/drawing.py                                                        *)

\* drawing.Pendulum.__init__: _sigma is 0.0; the bar and the weight sit at the
\* origin (bar = <<>>) until the sigma setter places them for an angle.  The
\* object has no attribute angle (angle = <<>>).
Pendulum_init == [_sigma |-> Zero, bar |-> <<>>, angle |-> <<>>]

\* drawing.Pendulum.sigma setter: stores the angle and repositions the bar and
\* the weight for it.
sigma_setter(pd, value) == [pd EXCEPT !._sigma = value, !.bar = <<value>>]

\* drawing.Trajectory.__init__: the marker is created at solution.y[:, 0],
\* which raises when the solution has no sample.
Trajectory_init(solution) ==
    IF Len(solution.y) = 0
    THEN [exc |-> "IndexError", obj |-> <<>>]
    ELSE [exc |-> "none",
          obj |-> [solution |-> solution, _marker |-> solution.y[1]]]

\* drawing.Trajectory.__call__: a new generator over solution.y.T, held as
\* the number of samples it has yielded.
Trajectory_call(trajectory) == 0

\* Mutant: the generator walks the rows of solution.y (the two coordinate
\* series) instead of its columns.
generator_next_rows(trajectory, it) ==
    IF it < 2
    THEN [stop |-> FALSE,
          value |-> [j \in 1..Len(trajectory.solution.y) |->
                        trajectory.solution.y[j][it + 1]],
          it |-> it + 1]
    ELSE [stop |-> TRUE, value |-> <<>>, it |-> it]

\* next(iterator) on that generator.
generator_next(trajectory, it) ==
    IF it < Len(trajectory.solution.y)
    THEN [stop |-> FALSE, value |-> trajectory.solution.y[it + 1], it |-> it + 1]
    ELSE [stop |-> TRUE, value |-> <<>>, it |-> it]

\* Mutant: the marker is left where it is.
set_marker_kept(trajectory, position) == trajectory

\* drawing.Trajectory.set_marker
set_marker(trajectory, position) == [trajectory EXCEPT !._marker = position]

----------------------------------------------------------------------------
(* clock/__init__.py                                                       *)

NPlayers == 2

AnimFreq == <<15, 1>>

\* PendulumAnimation.__init__
PendulumAnimation_init(init, t, o) ==
    LET sol == solve(init, t, AnimFreq, o)
        tr == Trajectory_init(sol)
    IN  IF sol.exc # "none" THEN [exc |-> sol.exc, obj |-> <<>>]
        ELSE IF tr.exc # "none" THEN [exc |-> tr.exc, obj |-> <<>>]
        ELSE [exc |-> "none",
              obj |-> [sol |-> sol,
                       trajectory |-> tr.obj,
                       pendulum |-> Pendulum_init,
                       state_iterator |-> Trajectory_call(tr.obj)]]

\* PendulumAnimation.update, lines 74-75: what is done with the pulled state.
\* The marker is moved, and state[0] is assigned to the attribute angle of
\* the drawing.Pendulum; its sigma setter is not what is assigned to.
push_state(a, it, st) ==
    [a EXCEPT !.state_iterator = it,
              !.trajectory = set_marker(a.trajectory, st),
              !.pendulum = [a.pendulum EXCEPT !.angle = <<st[1]>>]]

\* Mutant: at the end of the sequence the iterator is not replaced, and the
\* last sample is shown again.
PendulumAnimation_update_stuck(a) ==
    LET first == generator_next(a.trajectory, a.state_iterator)
        last == a.trajectory.solution.y[Len(a.trajectory.solution.y)]
    IN  IF ~first.stop
        THEN [exc |-> "none", restarted |-> FALSE, state |-> first.value,
              a |-> push_state(a, first.it, first.value)]
        ELSE [exc |-> "none", restarted |-> TRUE, state |-> last,
              a |-> push_state(a, first.it, last)]

\* PendulumAnimation.update
PendulumAnimation_update(a) ==
    LET first == generator_next(a.trajectory, a.state_iterator)
        again == generator_next(a.trajectory, Trajectory_call(a.trajectory))
    IN  IF ~first.stop
        THEN [exc |-> "none", restarted |-> FALSE, state |-> first.value,
              a |-> push_state(a, first.it, first.value)]
        ELSE IF ~again.stop
        THEN [exc |-> "none", restarted |-> TRUE, state |-> again.value,
              a |-> push_state(a, again.it, again.value)]
        ELSE [exc |-> "StopIteration", restarted |-> TRUE, state |-> <<>>,
              a |-> [a EXCEPT !.state_iterator = again.it]]

MaxTicks == 300

AnimInits == {<<Zero, One>>}

AnimDurations == {<<-1, 1>>, <<-1, 20>>, Zero, <<1, 20>>, <<1, 10>>,
                  <<33, 5>>, <<199, 20>>}

Players == 1..NPlayers

Init ==
    /\ args = [api |-> "none"]
    /\ ret = NoRet
    /\ configs \in [Players -> [init : AnimInits, t : AnimDurations]]
    /\ anims = <<>>
    /\ phase = "setup"
    /\ err = "none"
    /\ pos = 0
    /\ ticks = 0
    /\ pulls = [i \in Players |-> 0]
    /\ restarts = [i \in Players |-> 0]
    /\ state = [i \in Players |-> <<>>]

\* pendulum() / escapement(), the body of the loop over configs: construct
\* the next PendulumAnimation and append it; after the last one the
\* FuncAnimation is created and the animation runs.
NewAnimation ==
    /\ phase = "setup"
    /\ Len(anims) < NPlayers
    /\ \E o \in Outcomes :
          LET i == Len(anims) + 1
              p == PendulumAnimation_init(configs[i].init, configs[i].t, o)
          IN  IF p.exc # "none"
              THEN /\ phase' = "failed"
                   /\ err' = p.exc
                   /\ anims' = anims
              ELSE /\ anims' = Append(anims, p.obj)
                   /\ phase' = IF i = NPlayers THEN "running" ELSE "setup"
                   /\ err' = err
    /\ UNCHANGED <<args, ret, configs, pos, ticks, pulls, restarts, state>>

\* FuncAnimation calls update(t) with a frame t of animations[0].sol.t; the
\* for loop over animations starts.
update_call ==
    /\ phase = "running"
    /\ pos = 0
    /\ ticks < MaxTicks
    /\ anims[1].sol.t # <<>>
    /\ ticks' = ticks + 1
    /\ pos' = 1
    /\ UNCHANGED <<args, ret, configs, anims, phase, err, pulls, restarts, state>>

\* Mutant: the loop is left after the first animation that restarts.
update_loop_break ==
    /\ phase = "running"
    /\ pos \in Players
    /\ LET u == PendulumAnimation_update(anims[pos])
       IN  /\ anims' = [anims EXCEPT ![pos] = u.a]
           /\ restarts' = [restarts EXCEPT ![pos] = @ + (IF u.restarted THEN 1 ELSE 0)]
           /\ pulls' = [pulls EXCEPT ![pos] = @ + 1]
           /\ state' = [state EXCEPT ![pos] = u.state]
           /\ pos' = IF pos = NPlayers \/ u.restarted THEN 0 ELSE pos + 1
           /\ UNCHANGED <<phase, err>>
    /\ UNCHANGED <<args, ret, configs, ticks>>

\* update(t), the body of its for loop: a.update() for the animation at pos.
update_loop ==
    /\ phase = "running"
    /\ pos \in Players
    /\ LET u == PendulumAnimation_update(anims[pos])
       IN  /\ anims' = [anims EXCEPT ![pos] = u.a]
           /\ restarts' = [restarts EXCEPT ![pos] = @ + (IF u.restarted THEN 1 ELSE 0)]
           /\ IF u.exc # "none"
              THEN /\ phase' = "failed"
                   /\ err' = u.exc
                   /\ pos' = 0
                   /\ UNCHANGED <<pulls, state>>
              ELSE /\ pulls' = [pulls EXCEPT ![pos] = @ + 1]
                   /\ state' = [state EXCEPT ![pos] = u.state]
                   /\ pos' = IF pos = NPlayers THEN 0 ELSE pos + 1
                   /\ UNCHANGED <<phase, err>>
    /\ UNCHANGED <<args, ret, configs, ticks>>

Next == NewAnimation \/ update_call \/ update_loop

Spec == Init /\ [][Next]_vars

----------------------------------------------------------------------------
(* Properties                                                              *)

Built == 1..Len(anims)

Y(i) == anims[i].sol.y

N(i) == Len(Y(i))

\* The sample with 0-based index k of player i's solution.
Sample(i, k) == Y(i)[k + 1]

\* C1: restart law.  Pull number k*N + j (1 <= j <= N) of a player whose
\* solution has N >= 1 samples returns sample index j - 1, the state pull j
\* returned; pull N + 1 returns the first sample again; and the end of the
\* sequence never leaves update() as an error.
C1_RestartLaw ==
    /\ err # "StopIteration"
    /\ \A i \in Built :
          /\ N(i) >= 1
          /\ pulls[i] >= 1 => state[i] = Sample(i, (pulls[i] - 1) % N(i))
          /\ pulls[i] = N(i) + 1 => state[i] = Sample(i, 0)

C1_Witness ==
    \E i \in Built :
        /\ N(i) >= 2
        /\ pulls[i] = 2 * N(i) + 2
        /\ restarts[i] = 2
        /\ state[i] = Sample(i, 1)
        /\ Sample(i, 1) # Sample(i, 0)

Scenario ==
    /\ phase = "running"
    /\ N(1) = 100
    /\ N(2) = 150
    /\ ticks = 300
    /\ pos = 0

\* C2 as stated: after 300 ticks with 100 and 150 samples player A has
\* restarted 3 times and player B twice, and each shows sample 300 mod N.
C2_Original ==
    Scenario =>
        /\ restarts[1] = 3
        /\ restarts[2] = 2
        /\ \A i \in Players : state[i] = Sample(i, 300 % N(i))

\* C2 as amended: after 300 ticks with 100 and 150 samples player A has
\* restarted twice and player B once, both iterators stand at the end of a
\* pass (the third and the second), and each shows sample (300 - 1) mod N,
\* its last sample.
C2_Scenario ==
    Scenario =>
        /\ restarts[1] = 2
        /\ restarts[2] = 1
        /\ \A i \in Players :
              /\ state[i] = Sample(i, (300 - 1) % N(i))
              /\ state[i] = Sample(i, N(i) - 1)
              /\ anims[i].state_iterator = N(i)

C2_Witness ==
    /\ Scenario
    /\ state[1] = Sample(1, 99)
    /\ state[2] = Sample(2, 149)
    /\ state[1] # Sample(1, 0)

\* C3: lockstep.  Every tick advances each player by exactly one pull, in
\* the order of the animations list: inside a tick the players before the
\* loop position have pulled ticks states and the others ticks - 1, and
\* between ticks every player has pulled exactly ticks states.
C3_Lockstep ==
    phase = "running" =>
        \A i \in Players :
            pulls[i] = IF pos = 0 \/ i < pos THEN ticks ELSE ticks - 1

C3_Witness ==
    /\ phase = "running"
    /\ pos = 0
    /\ ticks = 5
    /\ N(1) = 1
    /\ N(2) = 2
    /\ restarts[1] = 4
    /\ restarts[2] = 2
    /\ pulls = [i \in Players |-> 5]

\* C4: after each update the drawn pendulum's angle (its sigma value, from
\* which the bar and the weight are placed) is state[0] of the state pulled.
C4_ArmPush ==
    \A i \in Built :
        pulls[i] >= 1 =>
            anims[i].pendulum._sigma = state[i][1]

Solved == ret.op = "solve"

Positive(r) == RLt(Zero, r)

Increasing(g) == \A i \in 1..(Len(g) - 1) : RLt(g[i], g[i + 1])

\* C5: for duration > 0 and freq > 0 the grid has floor(duration*freq) + 1
\* points, starts at 0, increases strictly, and the returned state matrix has
\* one column per grid point.
C5_GridSize ==
    (Solved /\ Positive(args.t) /\ Positive(args.freq)) =>
        /\ ret.out.exc = "none"
        /\ Len(ret.out.t_eval) = RFloor(RMul(args.t, args.freq)) + 1
        /\ ret.out.t_eval[1] = Zero
        /\ Increasing(ret.out.t_eval)
        /\ Len(ret.out.y) = Len(ret.out.t_eval)

Spacing(g, i) == RSub(g[i + 1], g[i])

C7_SolveFailureReported ==
    \A i \in Built : anims[i].sol.status = 0

\* C8: a request with duration <= 0 or frequency <= 0 is rejected at setup:
\* solve raises, or it returns no sample and the construction of the
\* Trajectory raises.
C8_SetupValidation ==
    (Solved /\ (RLe(args.t, Zero) \/ RLe(args.freq, Zero))) =>
        \/ ret.out.exc # "none"
        \/ Trajectory_init(ret.out).exc # "none"

\* C9: the plain model returns (v, -p - drag*v); the model with escapement
\* returns (v, a_plain + gain*escapement(p, v)) with a_plain the plain
\* model's acceleration, which for gain = 0 is the plain model's derivative;
\* and neither depends on t.
C9_ModelComposition ==
    LET p == args.y[1]
        v == args.y[2]
        plain == <<v, RSub(RNeg(p), RMul(args.k, v))>>
    IN  /\ ret.op = "Pendulum" =>
              /\ ret.out = plain
              /\ \A t \in Times : Pendulum_call(args.k, t, args.y) = ret.out
        /\ ret.op = "PendulumWithEscapement" =>
              /\ ret.out = <<v, RAdd(plain[2], RMul(args.q, escapement(p, v)))>>
              /\ args.q = Zero => ret.out = plain
              /\ \A t \in Times :
                    PendulumWithEscapement_call(args.k, args.q, t, args.y) = ret.out

C9_Witness ==
    /\ ret.op = "PendulumWithEscapement"
    /\ args.k # Zero
    /\ args.y[2] # Zero
    /\ args.q # Zero
    /\ escapement(args.y[1], args.y[2]) # Zero
    /\ ret.out # Pendulum_call(args.k, args.tm, args.y)

MarkerAtState ==
    \A i \in Built :
        /\ pulls[i] = 0 => anims[i].trajectory._marker = Sample(i, 0)
        /\ pulls[i] >= 1 =>
              /\ anims[i].trajectory._marker = state[i]
              /\ anims[i].trajectory._marker = Sample(i, anims[i].state_iterator - 1)

OthersUntouched ==
    \A i \in Players :
        pulls'[i] # pulls[i] =>
            \A j \in Players \ {i} :
                /\ anims'[j].trajectory._marker = anims[j].trajectory._marker
                /\ anims'[j].state_iterator = anims[j].state_iterator

\* C10: the marker is created at the first sample; after every update it is
\* at the state that player pulled last, also on the tick that restarts the
\* sequence; and an update of one player leaves the other players' markers
\* and iterators as they were.
C10_MarkerTracks == []MarkerAtState /\ [][OthersUntouched]_vars

C10_Witness ==
    \E i \in Built :
        /\ N(i) >= 2
        /\ pulls[i] = N(i) + 1
        /\ restarts[i] = 1
        /\ anims[i].trajectory._marker = Sample(i, 0)
        /\ \E j \in Built : j # i /\ anims[j].trajectory._marker # Sample(j, 0)

====
